---- MODULE Spec2Model ----
(***************************************************************************)
(* Model of pyomo/dae/init_cond.py: deactivate_model_at,                   *)
(* get_inconsistent_initial_conditions, solve_consistent_initial_conditions*)
(* acting on a small hierarchical Pyomo model shaped like make_model() of  *)
(* pyomo/dae/tests/test_init_cond.py:                                      *)
(*                                                                         *)
(*   m                       root block                                    *)
(*   `- fs                   Block()                                       *)
(*      |- b1                Block()                                       *)
(*      |  |- b2 ("b1b2")    Block(time)                                   *)
(*      |  |  `- nb          Block(time)   only when nested                *)
(*      |  |     `- con      Constraint()  ("nbcon")                       *)
(*      |  `- con ("b1con")  Constraint(time, space)                       *)
(*      |- b2                Block(time, space)                            *)
(*      |  `- b3             Block(set1)                                   *)
(*      |     `- con         Constraint(set2)  ("b3con")                   *)
(*      |- con1              Constraint(time)                              *)
(*      `- con2              Constraint(space)                             *)
(*                                                                         *)
(* A ComponentData is named by its path from the root: a sequence of       *)
(* [n |-> component name, i |-> index tuple].  A component is named by the *)
(* path of the block data that owns it plus its own name.                  *)
(***************************************************************************)
EXTENDS Integers, Sequences, FiniteSets, TLC

\* ------------------------------------------------------------------ bounds
NT == 3          \* number of points of the target set time
NX == 2          \* number of points of the set space
NS == 1          \* number of members of set1 / set2
MaxPts == 2      \* longest list of points handed to deactivate_model_at

\* ---------------------------------------------------------- the index sets
time == 1..NT
space == 1..NX
set1 == 1..NS
BadPt == NT + 1                 \* a value that is not in time

DimSet(dim) ==
    CASE dim = "T" -> time
      [] dim = "X" -> space
      [] dim = "S" -> set1

TimeFirst == 1

\* time.get_discretization_info()['scheme'] values the model draws from
Schemes == {"LAGRANGE-RADAU", "BACKWARD Difference", "FORWARD Difference"}

VARIABLES
    active,            \* ComponentData path -> its active flag
    present,           \* the ComponentData that exist (sparse components)
    nested,            \* does fs.b1.b2[t] own the time-indexed block nb
    profile,           \* which values the variables of the model hold
    pc,                \* position of the caller, and inside
                       \* solve_consistent_initial_conditions
    deactivated_dict,  \* its local deactivated_dict
    solves,            \* solver.solve calls made by the current transaction
    op,                \* the operation that ran last
    args,              \* its arguments
    status,            \* "ok" or the exception it raised
    pre,               \* active flags before it ran
    ret_deactivated,   \* dictionary returned by deactivate_model_at
    ret_inconsistent   \* set returned by get_inconsistent_initial_conditions

vars == <<active, present, nested, profile, pc, deactivated_dict, solves,
          op, args, status, pre, ret_deactivated, ret_inconsistent>>

\* ------------------------------------------------------------ declarations
\* ctype of a declared component
Ctype(n) ==
    IF n \in {"m", "fs", "b1", "b1b2", "nb", "b2", "b3"}
    THEN "Block" ELSE "Constraint"

\* declared index-set tuple of a component
Dims(n) ==
    CASE n \in {"m", "fs", "b1", "nbcon"} -> <<>>
      [] n \in {"b1b2", "nb", "con1"}   -> <<"T">>
      [] n \in {"b1con", "b2"}          -> <<"T", "X">>
      [] n = "con2"                     -> <<"X">>
      [] n \in {"b3", "b3con"}          -> <<"S">>

\* components declared on a block, in declaration order
KidsOf(n, nest) ==
    CASE n = "m"    -> <<"fs">>
      [] n = "fs"   -> <<"b1", "b2", "con1", "con2">>
      [] n = "b1"   -> <<"b1con", "b1b2">>
      [] n = "b1b2" -> IF nest THEN <<"nb">> ELSE <<>>
      [] n = "nb"   -> <<"nbcon">>
      [] n = "b2"   -> <<"b3">>
      [] n = "b3"   -> <<"b3con">>
      [] OTHER      -> <<>>

Range(s) == {s[k] : k \in 1..Len(s)}

RootData == << [n |-> "m", i |-> <<>>] >>

Last(path) == path[Len(path)]
ParentData(d) == SubSeq(d, 1, Len(d) - 1)
Comp(D, n) == [par |-> D, n |-> n]
Data(c, idx) == Append(c.par, [n |-> c.n, i |-> idx])

\* all index tuples of a tuple of index sets, in iteration order
RECURSIVE IndexSeq(_)
RECURSIVE Prefixed(_, _, _)
Prefixed(v, last, rest) ==
    IF v > last THEN <<>>
    ELSE [k \in 1..Len(rest) |-> <<v>> \o rest[k]] \o Prefixed(v + 1, last, rest)
IndexSeq(dims) ==
    IF dims = <<>> THEN << <<>> >>
    ELSE Prefixed(1, Cardinality(DimSet(Head(dims))), IndexSeq(Tail(dims)))

\* every ComponentData the declarations can give rise to, below block data D
RECURSIVE DataUnder(_, _)
DataUnder(D, nest) ==
    {D} \cup UNION { UNION { DataUnder(Data(Comp(D, KidsOf(Last(D).n, nest)[k]), idx), nest)
                               : idx \in Range(IndexSeq(Dims(KidsOf(Last(D).n, nest)[k]))) }
                     : k \in 1..Len(KidsOf(Last(D).n, nest)) }

IsPrefix(p, d) == Len(p) <= Len(d) /\ SubSeq(d, 1, Len(p)) = p

\* -------------------------------------------------- pyomo.dae.set_utils
\* is_explicitly_indexed_by(comp, time)
is_explicitly_indexed_by(c) == "T" \in Range(Dims(c.n))

\* is_in_block_indexed_by(comp, time): some block above comp is indexed by time
is_in_block_indexed_by(c) ==
    \E k \in 1..Len(c.par) : "T" \in Range(Dims(c.par[k].n))

\* get_index_set_except(comp, time)['set_except'], in iteration order
set_except(c) == IndexSeq(SelectSeq(Dims(c.n), LAMBDA dim : dim # "T"))

\* position of time in the index tuple of comp
TimeLoc(c) == CHOOSE k \in 1..Len(Dims(c.n)) : Dims(c.n)[k] = "T"

\* get_index_set_except(comp, time)['index_getter'](non_cset_index, pt)
index_getter(c, non_cset_index, pt) ==
    SubSeq(non_cset_index, 1, TimeLoc(c) - 1) \o <<pt>>
        \o SubSeq(non_cset_index, TimeLoc(c), Len(non_cset_index))

\* ------------------------------------------------------- pyomo.core.base
\* comp[index] succeeds when the data exists, raises KeyError otherwise
HasIndex(c, idx) == Data(c, idx) \in present

\* an indexed component keeps its own flag, which nothing here changes; a
\* scalar component is its own data
CompActive(act, c) ==
    IF Dims(c.n) = <<>> THEN act[Data(c, <<>>)] ELSE TRUE

\* the data of a component that exist, in index order
PresentIndexSeq(c) ==
    SelectSeq(IndexSeq(Dims(c.n)), LAMBDA idx : HasIndex(c, idx))

\* names of the components of the given ctypes declared on block data D, one
\* ctype after the other as PseudoMap iterates them
KidNames(D, ctypes) ==
    LET kids == KidsOf(Last(D).n, nested)
        OfType(ct) == SelectSeq(kids, LAMBDA n : Ctype(n) = ct)
    IN  IF ctypes = <<"Block", "Constraint">>
        THEN OfType("Block") \o OfType("Constraint")
        ELSE OfType(ctypes[1])

\* every block data below D (D first), prefix order, whatever its flag
RECURSIVE BlockPreorder(_)
RECURSIVE KidsPreorder(_, _)
RECURSIVE DataPreorder(_, _)
BlockPreorder(D) == <<D>> \o KidsPreorder(D, KidNames(D, <<"Block">>))
KidsPreorder(D, names) ==
    IF names = <<>> THEN <<>>
    ELSE DataPreorder(Comp(D, Head(names)), PresentIndexSeq(Comp(D, Head(names))))
             \o KidsPreorder(D, Tail(names))
DataPreorder(c, idxs) ==
    IF idxs = <<>> THEN <<>>
    ELSE BlockPreorder(Data(c, Head(idxs))) \o DataPreorder(c, Tail(idxs))

\* block_data_objects(active=True) from D: D and the block data below it
\* that are active and reached through active block data only
ActiveBlocks(act, D) ==
    SelectSeq(BlockPreorder(D),
              LAMBDA B : \A k \in Len(D)..Len(B) : act[SubSeq(B, 1, k)])

RECURSIVE Flatten(_)
Flatten(ss) == IF ss = <<>> THEN <<>> ELSE Head(ss) \o Flatten(Tail(ss))

\* block.component_map(ctypes, active=True) of one block data
component_map(act, D, ctypes) ==
    LET names == KidNames(D, ctypes)
        comps == [k \in 1..Len(names) |-> Comp(D, names[k])]
    IN  SelectSeq(comps, LAMBDA c : CompActive(act, c))

\* model.component_objects(ctypes, active=True) under unchanging flags
component_objects(act, ctypes) ==
    LET blocks == ActiveBlocks(act, RootData)
    IN  Flatten([k \in 1..Len(blocks) |-> component_map(act, blocks[k], ctypes)])

\* blkdata.component_data_objects(Constraint, active=True)
component_data_objects(act, blkdata) ==
    LET blocks == ActiveBlocks(act, blkdata)
        DataOf(c) == LET idxs == PresentIndexSeq(c)
                     IN  SelectSeq([k \in 1..Len(idxs) |-> Data(c, idxs[k])],
                                   LAMBDA d : act[d])
        OfBlock(B) == LET cs == component_map(act, B, <<"Constraint">>)
                      IN  Flatten([k \in 1..Len(cs) |-> DataOf(cs[k])])
    IN  Flatten([k \in 1..Len(blocks) |-> OfBlock(blocks[k])])

\* body, lower and upper of a constraint data, as value() evaluates them:
\* the values differ from one data to the next, and are all consistent once
\* a solve has converged
KindSeq == <<"above", "ok", "edge", "below", "range">>
Offset(n) ==
    CASE n = "con1" -> 4 [] n = "con2" -> 0 [] n = "b1con" -> 3
      [] n = "b3con" -> 4 [] n = "nbcon" -> 0
RECURSIVE SumSeq(_)
SumSeq(q) == IF q = <<>> THEN 0 ELSE Head(q) + SumSeq(Tail(q))
RECURSIVE PathSum(_)
PathSum(d) == IF d = <<>> THEN 0 ELSE SumSeq(Head(d).i) + PathSum(Tail(d))
Kind(d) ==
    IF profile = "solved" THEN "ok"
    ELSE KindSeq[((PathSum(d) + Offset(Last(d).n)) % 5) + 1]
Body(d) ==
    CASE Kind(d) = "ok"    -> 5
      [] Kind(d) = "above" -> 7
      [] Kind(d) = "below" -> 3
      [] Kind(d) = "edge"  -> 6
      [] Kind(d) = "range" -> 4
Lower(d) == IF Kind(d) = "range" THEN 3 ELSE 5
Upper(d) == 5

\* ComponentData.deactivate() / activate(): the flag of that data alone
deactivate(act, d) == [act EXCEPT ![d] = FALSE]
activate(act, d) == [act EXCEPT ![d] = TRUE]

\* ----------------------------------------------------- deactivate_model_at
\* the pts argument: one value or a list of values
AsList(p) == IF p.isList THEN p.pts ELSE <<p.pt>>

\* variant: only the first requested point is validated
HasInvalidPoint_FirstOnly(pts) == pts # <<>> /\ pts[1] \notin time

\* the first loop: some requested point is not in the ContinuousSet
HasInvalidPoint(pts) == \E k \in 1..Len(pts) : pts[k] \notin time

\* variant: the test for a time-indexed owner is left out
Eligible_NoOwnerTest(c) == is_explicitly_indexed_by(c)

\* the test that selects the components to deactivate
Eligible(c) == is_explicitly_indexed_by(c) /\ ~is_in_block_indexed_by(c)

\* variant: the except clause never re-raises
TryDeactivate_NoRaise(st, c, non_cset_index, pt, allow_skip) ==
    LET index == index_getter(c, non_cset_index, pt)
    IN  IF HasIndex(c, index)
        THEN [st EXCEPT !.active = deactivate(@, Data(c, index)),
                        !.deactivated[pt] = Append(@, Data(c, index))]
        ELSE st

\* variant: data that is already inactive is treated as an error
TryDeactivate_RaiseIfInactive(st, c, non_cset_index, pt, allow_skip) ==
    LET index == index_getter(c, non_cset_index, pt)
    IN  IF HasIndex(c, index)
        THEN IF ~st.active[Data(c, index)]
             THEN [st EXCEPT !.status = "KeyError"]
             ELSE [st EXCEPT !.active = deactivate(@, Data(c, index)),
                             !.deactivated[pt] = Append(@, Data(c, index))]
        ELSE IF ~allow_skip
             THEN [st EXCEPT !.status = "KeyError"]
             ELSE st

\* body of the two inner loops: the try / except KeyError around
\* comp[index].deactivate()
TryDeactivate(st, c, non_cset_index, pt, allow_skip) ==
    LET index == index_getter(c, non_cset_index, pt)
    IN  IF HasIndex(c, index)
        THEN [st EXCEPT !.active = deactivate(@, Data(c, index)),
                        !.deactivated[pt] = Append(@, Data(c, index))]
        ELSE IF ~allow_skip
             THEN [st EXCEPT !.status = "KeyError"]
             ELSE st

\* for non_cset_index in non_cset_set: for pt in pts: ..., from combination k
RECURSIVE IndexLoop(_, _, _, _, _)
IndexLoop(st, c, pts, k, allow_skip) ==
    IF st.status # "ok" \/ k >= Len(set_except(c)) * Len(pts) THEN st
    ELSE IndexLoop(TryDeactivate(st, c, set_except(c)[(k \div Len(pts)) + 1],
                                 pts[(k % Len(pts)) + 1], allow_skip),
                   c, pts, k + 1, allow_skip)

\* body of the loop over components
VisitComp(st, c, pts, allow_skip) ==
    IF c \in st.visited THEN st
    ELSE LET st1 == [st EXCEPT !.visited = @ \cup {c}]
         IN  IF Eligible(c) THEN IndexLoop(st1, c, pts, 0, allow_skip) ELSE st1

RECURSIVE CompLoop(_, _, _, _)
CompLoop(st, comps, pts, allow_skip) ==
    IF st.status # "ok" \/ comps = <<>> THEN st
    ELSE CompLoop(VisitComp(st, Head(comps), pts, allow_skip),
                  Tail(comps), pts, allow_skip)

\* for comp in b.component_objects([Block, Constraint], active=True): the
\* generator is consumed while the loop body changes flags, so a block data
\* is entered only if it is active when the walk reaches it
RECURSIVE BlockLoop(_, _, _, _)
BlockLoop(st, blocks, pts, allow_skip) ==
    IF st.status # "ok" \/ blocks = <<>> THEN st
    ELSE LET B == Head(blocks)
             entered == st.active[B]
                        /\ (B = RootData \/ ParentData(B) \in st.walked)
         IN  IF ~entered THEN BlockLoop(st, Tail(blocks), pts, allow_skip)
             ELSE BlockLoop(
                    CompLoop([st EXCEPT !.walked = @ \cup {B}],
                             component_map(st.active, B, <<"Block", "Constraint">>),
                             pts, allow_skip),
                    Tail(blocks), pts, allow_skip)

deactivate_model_at(act, ptsArg, allow_skip) ==
    LET pts == AsList(ptsArg)
        st0 == [active |-> act,
                deactivated |-> [pt \in Range(pts) |-> <<>>],
                status |-> "ok", visited |-> {}, walked |-> {}]
    IN  IF HasInvalidPoint(pts)
        THEN [st0 EXCEPT !.status = "ValueError", !.deactivated = <<>>]
        ELSE BlockLoop(st0, BlockPreorder(RootData), pts, allow_skip)

\* ------------------------------------- get_inconsistent_initial_conditions
NoT0 == 0                          \* the default t0=None
Tols == {0, 1}                     \* tolerances the model draws from

\* variant: only the upper bound is compared
Violated_UpperOnly(d, tol) == Body(d) - Upper(d) > tol

\* value(body) - value(upper) > tol or value(lower) - value(body) > tol
Violated(d, tol) == Body(d) - Upper(d) > tol \/ Lower(d) - Body(d) > tol

\* the (component, non_time_index) pairs the loops over the eligible
\* components of one ctype go through, in order
Combos(act, ctype) ==
    LET comps == SelectSeq(component_objects(act, <<ctype>>), Eligible)
        Of(c) == [k \in 1..Len(set_except(c)) |-> <<c, set_except(c)[k]>>]
    IN  Flatten([k \in 1..Len(comps) |-> Of(comps[k])])

\* first loop: the constraints indexed by time
RECURSIVE ConLoop(_, _, _, _, _)
ConLoop(st, combos, tol, t0, allow_skip) ==
    IF st.status # "ok" \/ combos = <<>> THEN st
    ELSE LET con == Head(combos)[1]
             index == index_getter(con, Head(combos)[2], t0)
             condata == Data(con, index)
             st1 == IF ~HasIndex(con, index)
                    THEN IF ~allow_skip THEN [st EXCEPT !.status = "KeyError"]
                         ELSE st
                    ELSE IF Violated(condata, tol)
                         THEN [st EXCEPT !.inconsistent = @ \cup {condata}]
                         ELSE st
         IN  ConLoop(st1, Tail(combos), tol, t0, allow_skip)

\* innermost loop of the second part: the constraint data of one block data
RECURSIVE CondataLoop(_, _, _)
CondataLoop(st, condatas, tol) ==
    IF st.status # "ok" \/ condatas = <<>> THEN st
    ELSE LET condata == Head(condatas)
             st1 == IF Violated(condata, tol)
                    THEN IF condata \in st.inconsistent
                         THEN [st EXCEPT !.status = "ValueError"]
                         ELSE [st EXCEPT !.inconsistent = @ \cup {condata}]
                    ELSE st
         IN  CondataLoop(st1, Tail(condatas), tol)

\* second loop: the blocks indexed by time; blk[index] is not guarded
RECURSIVE BlkLoop(_, _, _, _, _)
BlkLoop(st, act, combos, tol, t0) ==
    IF st.status # "ok" \/ combos = <<>> THEN st
    ELSE LET blk == Head(combos)[1]
             index == index_getter(blk, Head(combos)[2], t0)
             st1 == IF ~HasIndex(blk, index)
                    THEN [st EXCEPT !.status = "KeyError"]
                    ELSE CondataLoop(st, component_data_objects(act, Data(blk, index)), tol)
         IN  BlkLoop(st1, act, Tail(combos), tol, t0)

get_inconsistent_initial_conditions(act, tol, t0Arg, allow_skip) ==
    LET t0 == IF t0Arg = NoT0 THEN TimeFirst ELSE t0Arg
        st0 == [status |-> "ok", inconsistent |-> {}]
        st1 == ConLoop(st0, Combos(act, "Constraint"), tol, t0, allow_skip)
    IN  BlkLoop(st1, act, Combos(act, "Block"), tol, t0)

\* ------------------------------------- solve_consistent_initial_conditions
\* variant: every finite difference scheme is let through
SupportedScheme_AnyDifference(sch) ==
    sch \in {"LAGRANGE-RADAU", "BACKWARD Difference", "FORWARD Difference"}

SupportedScheme(sch) == ~(sch # "LAGRANGE-RADAU" /\ sch # "BACKWARD Difference")

\* variant: the first point is not cut off
timelist_All == [k \in 1..NT |-> k]

\* list(time)[1:]
timelist == [k \in 1..(NT - 1) |-> k + 1]

\* for t in timelist: for comp in deactivated_dict[t]: comp.activate()
RECURSIVE ActivateAll(_, _)
ActivateAll(act, comps) ==
    IF comps = <<>> THEN act ELSE ActivateAll(activate(act, Head(comps)), Tail(comps))

\* variant: the inner loop runs once, after the outer loop, for the last t
Reactivate_LastOnly(act, dict, ts) ==
    IF ts = <<>> THEN act ELSE ActivateAll(act, dict[ts[Len(ts)]])

RECURSIVE Reactivate(_, _, _)
Reactivate(act, dict, ts) ==
    IF ts = <<>> THEN act
    ELSE Reactivate(ActivateAll(act, dict[Head(ts)]), dict, Tail(ts))

\* ------------------------------------------------------------ the programs
Profiles == {"initial", "solved"}

FsData == Append(RootData, [n |-> "fs", i |-> <<>>])
B1Data == Append(FsData, [n |-> "b1", i |-> <<>>])
Con1(t) == Append(FsData, [n |-> "con1", i |-> <<t>>])
Con2(x) == Append(FsData, [n |-> "con2", i |-> <<x>>])
B1Con(t, x) == Append(B1Data, [n |-> "b1con", i |-> <<t, x>>])
B1B2(t) == Append(B1Data, [n |-> "b1b2", i |-> <<t>>])
Nb(t, u) == Append(B1B2(t), [n |-> "nb", i |-> <<u>>])
NbCon(t, u) == Append(Nb(t, u), [n |-> "nbcon", i |-> <<>>])
B2(t, x) == Append(FsData, [n |-> "b2", i |-> <<t, x>>])
B3(t, x, s) == Append(B2(t, x), [n |-> "b3", i |-> <<s>>])
B3Con(t, x, s, r) == Append(B3(t, x, s), [n |-> "b3con", i |-> <<r>>])

\* index combinations left without data (Constraint.Skip / Block.Skip)
SkipChoices ==
    { {}, {B1Con(1, 1)}, {B2(1, NX), Con1(2)}, {B1B2(NT), B1Con(2, NX)} }

\* data the user deactivated before any function is called
InactiveChoices == { {}, {B1Data}, {B3(1, 1, 1)} }

\* points of an earlier call of deactivate_model_at on the same model
EarlierPts == { <<1>>, <<2>> }

EmptyArgs ==
    [pts |-> <<>>, allow_skip |-> TRUE, tol |-> 0, t0 |-> NoT0, scheme |-> "",
     repeat |-> FALSE]

Init ==
    /\ nested \in BOOLEAN
    /\ profile = "initial"
    /\ \E skipped \in SkipChoices, off \in InactiveChoices :
           \E act \in {[d \in {x \in DataUnder(RootData, nested) :
                                   \A s \in skipped : ~IsPrefix(s, x)}
                           |-> d \notin off]} :
               /\ present = DOMAIN act
               /\ active = act
    /\ pc = "fresh"
    /\ deactivated_dict = <<>>
    /\ solves = 0
    /\ op = "none"
    /\ args = EmptyArgs
    /\ status = "ok"
    /\ pre = active
    /\ ret_deactivated = <<>>
    /\ ret_inconsistent = {}

RECURSIVE SeqsUpTo(_, _)
SeqsUpTo(S, n) ==
    IF n = 0 THEN { <<>> }
    ELSE SeqsUpTo(S, n - 1)
           \cup { Append(s, v) : s \in { q \in SeqsUpTo(S, n - 1) : Len(q) = n - 1 }, v \in S }

PtsInputs ==
    { [isList |-> FALSE, pt |-> p, pts |-> <<>>] : p \in time \cup {BadPt} }
      \cup { [isList |-> TRUE, pt |-> 0, pts |-> s] : s \in SeqsUpTo(time \cup {BadPt}, MaxPts) }

\* the caller is between two calls
Ready == pc \in {"fresh", "idle"}

\* an earlier call of deactivate_model_at(m, m.time, pts), as the second call
\* of test_indexed_by follows the first
Earlier(pts) ==
    /\ pc = "fresh"
    /\ \E r \in {deactivate_model_at(active,
                    [isList |-> TRUE, pt |-> 0, pts |-> pts], TRUE)} :
           /\ active' = r.active
           /\ pre' = r.active
    /\ pc' = "idle"
    /\ UNCHANGED <<present, nested, profile, deactivated_dict, solves, op, args,
                   status, ret_deactivated, ret_inconsistent>>

\* a call of deactivate_model_at(m, m.time, pts, allow_skip)
Deactivate(ptsArg, allow_skip) ==
    /\ Ready
    /\ \E r \in {deactivate_model_at(active, ptsArg, allow_skip)} :
           /\ active' = r.active
           /\ status' = r.status
           /\ ret_deactivated' = IF r.status = "ok" THEN r.deactivated ELSE <<>>
           /\ pc' = IF r.status = "ok" THEN "returned" ELSE "done"
    /\ op' = "deactivate_model_at"
    /\ args' = [EmptyArgs EXCEPT !.pts = AsList(ptsArg), !.allow_skip = allow_skip]
    /\ pre' = active
    /\ ret_inconsistent' = {}
    /\ UNCHANGED <<present, nested, profile, deactivated_dict, solves>>

\* the same call of deactivate_model_at once more, after it has returned
DeactivateAgain ==
    /\ pc = "returned"
    /\ \E r \in {deactivate_model_at(active,
                    [isList |-> TRUE, pt |-> 0, pts |-> args.pts], args.allow_skip)} :
           /\ active' = r.active
           /\ status' = r.status
           /\ ret_deactivated' = IF r.status = "ok" THEN r.deactivated ELSE <<>>
    /\ pc' = "done"
    /\ args' = [args EXCEPT !.repeat = TRUE]
    /\ pre' = active
    /\ UNCHANGED <<present, nested, profile, deactivated_dict, solves, op,
                   ret_inconsistent>>

\* a call of get_inconsistent_initial_conditions(m, m.time, tol, t0, allow_skip)
GetInconsistent(tol, t0, allow_skip) ==
    /\ Ready
    /\ \E r \in {get_inconsistent_initial_conditions(active, tol, t0, allow_skip)} :
           /\ status' = r.status
           /\ ret_inconsistent' = IF r.status = "ok" THEN r.inconsistent ELSE {}
    /\ pc' = "done"
    /\ op' = "get_inconsistent_initial_conditions"
    /\ args' = [EmptyArgs EXCEPT !.tol = tol, !.t0 = t0, !.allow_skip = allow_skip]
    /\ pre' = active
    /\ ret_deactivated' = <<>>
    /\ UNCHANGED <<active, present, nested, profile, deactivated_dict, solves>>

\* solve_consistent_initial_conditions(m, time, solver) up to the call of
\* solver.solve; sch is the scheme of the set handed in as time
SolveBegin(sch) ==
    /\ Ready
    /\ op' = "solve_consistent_initial_conditions"
    /\ args' = [EmptyArgs EXCEPT !.scheme = sch]
    /\ pre' = active
    /\ solves' = 0
    /\ ret_deactivated' = <<>>
    /\ ret_inconsistent' = {}
    /\ IF ~SupportedScheme(sch)
       THEN /\ status' = "NotImplementedError"
            /\ pc' = "done"
            /\ UNCHANGED <<active, deactivated_dict>>
       ELSE \E r \in {deactivate_model_at(active,
                         [isList |-> TRUE, pt |-> 0, pts |-> timelist], TRUE)} :
                /\ active' = r.active
                /\ deactivated_dict' = r.deactivated
                /\ status' = IF r.status = "ok" THEN "running" ELSE r.status
                /\ pc' = IF r.status = "ok" THEN "solving" ELSE "done"
    /\ UNCHANGED <<present, nested, profile>>

\* result = solver.solve(model): the solver moves the variables and returns
SolverReturns ==
    /\ pc = "solving"
    /\ solves' = solves + 1
    /\ profile' \in Profiles
    /\ pc' = "reactivate"
    /\ UNCHANGED <<active, present, nested, deactivated_dict,
                   op, args, status, pre, ret_deactivated, ret_inconsistent>>

\* result = solver.solve(model): the solver raises, which ends the function
SolverRaises ==
    /\ pc = "solving"
    /\ solves' = solves + 1
    /\ pc' = "done"
    /\ status' = "SolverError"
    /\ UNCHANGED <<active, present, nested, profile, deactivated_dict,
                   op, args, pre, ret_deactivated, ret_inconsistent>>

\* the reactivation loop and the return
SolveEnd ==
    /\ pc = "reactivate"
    /\ active' = Reactivate(active, deactivated_dict, timelist)
    /\ pc' = "done"
    /\ status' = "ok"
    /\ UNCHANGED <<present, nested, profile, deactivated_dict, solves,
                   op, args, pre, ret_deactivated, ret_inconsistent>>

Next ==
    \/ \E pts \in EarlierPts : Earlier(pts)
    \/ \E ptsArg \in PtsInputs, allow_skip \in BOOLEAN : Deactivate(ptsArg, allow_skip)
    \/ DeactivateAgain
    \/ \E tol \in Tols, t0 \in time \cup {NoT0}, allow_skip \in BOOLEAN :
           GetInconsistent(tol, t0, allow_skip)
    \/ \E sch \in Schemes : SolveBegin(sch)
    \/ SolverReturns
    \/ SolverRaises
    \/ SolveEnd

Spec == Init /\ [][Next]_vars

TypeOK ==
    /\ active \in [present -> BOOLEAN]
    /\ pc \in {"fresh", "idle", "returned", "solving", "reactivate", "done"}
    /\ status \in {"ok", "running", "ValueError", "KeyError",
                   "NotImplementedError", "SolverError"}

\* ------------------------------------------------ vocabulary of the claims
ValidPoints(pts) == \A k \in 1..Len(pts) : pts[k] \in time

AllActive(act) == \A d \in present : act[d]

\* d is data of a component indexed by time itself and owned by no block
\* that is indexed by time
ExplicitOnly(d) ==
    /\ "T" \in Range(Dims(Last(d).n))
    /\ \A k \in 1..(Len(d) - 1) : "T" \notin Range(Dims(d[k].n))

\* the point of time in the index of such a data
TimeOf(d) == Last(d).i[CHOOSE k \in 1..Len(Dims(Last(d).n)) : Dims(Last(d).n)[k] = "T"]

\* every block data that owns d, directly or not, is active
OwnersActive(act, d) == \A k \in 1..(Len(d) - 1) : act[SubSeq(d, 1, k)]

Max(a, b) == IF a >= b THEN a ELSE b
Violation(d) == Max(Body(d) - Upper(d), Lower(d) - Body(d))

IsConstraintData(d) == Ctype(Last(d).n) = "Constraint"

\* C1: deactivate_model_at given a list with a point that is not in time
\* raises ValueError and leaves every active flag as it was, wherever the
\* invalid point stands in the list
Thm_C1 ==
    (op = "deactivate_model_at" /\ ~ValidPoints(args.pts))
        => (status = "ValueError" /\ active = pre)

Wit_C1 ==
    /\ op = "deactivate_model_at"
    /\ status = "ValueError"
    /\ \E t \in time : /\ args.pts = <<t, BadPt>>
                       /\ Con1(t) \in present
                       /\ active[Con1(t)]

\* C2: on a model whose data are all active, deactivate_model_at with
\* allow_skip leaves inactive exactly the existing data, at the requested
\* points, of the components indexed by time and owned by no time-indexed block
Thm_C2 ==
    (op = "deactivate_model_at" /\ args.allow_skip /\ ValidPoints(args.pts)
         /\ AllActive(pre))
        => /\ status = "ok"
           /\ {d \in present : ~active[d]}
                = {d \in present : ExplicitOnly(d) /\ TimeOf(d) \in Range(args.pts)}

Wit_C2 ==
    /\ op = "deactivate_model_at" /\ status = "ok" /\ args.allow_skip
    /\ AllActive(pre)
    /\ args.pts = <<2>>
    /\ nested
    /\ Con1(2) \in present /\ ~active[Con1(2)]
    /\ active[Con1(1)] /\ active[Con1(3)] /\ active[Con2(1)]
    /\ ~active[B1Con(2, 1)]
    /\ ~active[B2(2, NX)] /\ active[B3Con(2, NX, 1, 1)]
    /\ ~active[B1B2(2)] /\ active[Nb(2, 2)] /\ active[Nb(1, 2)]

\* C3: reactivating the data in the lists deactivate_model_at returned makes
\* every flag that was active before the call active again, and this is what
\* solve_consistent_initial_conditions has done when it returns
Thm_C3 ==
    /\ (op = "deactivate_model_at" /\ status = "ok")
         => \A d \in present :
               pre[d] => (active[d] \/ \E p \in DOMAIN ret_deactivated :
                                          d \in Range(ret_deactivated[p]))
    /\ (op = "solve_consistent_initial_conditions" /\ pc = "done" /\ status = "ok")
         => /\ \A d \in present : pre[d] => active[d]
            /\ \A t \in DOMAIN deactivated_dict :
                  \A d \in Range(deactivated_dict[t]) : active[d]
            /\ AllActive(pre) => active = pre

Wit_C3 ==
    /\ op = "solve_consistent_initial_conditions" /\ pc = "done" /\ status = "ok"
    /\ AllActive(pre)
    /\ Con1(3) \in Range(deactivated_dict[3])
    /\ B2(2, 1) \in Range(deactivated_dict[2])
    /\ active[Con1(3)] /\ active[B2(2, 1)] /\ active[B1Con(3, 1)]

\* d is data at t0 of an eligible component: one indexed by time, owned by
\* no time-indexed block, that the walk over the active blocks reaches
EligibleAt(d, t0) == ExplicitOnly(d) /\ TimeOf(d) = t0 /\ OwnersActive(active, d)

\* the data get_inconsistent_initial_conditions looks at, "active" being the
\* flag of the constraint data itself
LooksAtByOwnFlag(d, t0) ==
    \/ EligibleAt(d, t0)
    \/ /\ active[d]
       /\ \E k \in 1..(Len(d) - 1) :
             Ctype(d[k].n) = "Block" /\ EligibleAt(SubSeq(d, 1, k), t0)

\* the data it looks at, when a block data that is not active hides
\* everything it owns
LooksAt(d, t0) ==
    \/ EligibleAt(d, t0)
    \/ /\ active[d]
       /\ OwnersActive(active, d)
       /\ \E k \in 1..(Len(d) - 1) :
             Ctype(d[k].n) = "Block" /\ EligibleAt(SubSeq(d, 1, k), t0)

ArgT0 == IF args.t0 = NoT0 THEN TimeFirst ELSE args.t0

\* C4 as stated: the result is exactly the violated constraint data among
\* the data at t0 of the eligible constraints and the active constraint data
\* owned by the data at t0 of the eligible blocks
Orig_C4 ==
    (op = "get_inconsistent_initial_conditions" /\ status = "ok")
        => ret_inconsistent
             = {d \in present : /\ IsConstraintData(d)
                                /\ LooksAtByOwnFlag(d, ArgT0)
                                /\ Violation(d) > args.tol}

\* C4 amended: the same, except that inside the data at t0 of an eligible
\* block only the constraint data reached through active block data count:
\* nothing when that data is itself inactive, nothing below an inactive
\* sub-block
Thm_C4 ==
    (op = "get_inconsistent_initial_conditions" /\ status = "ok")
        => ret_inconsistent
             = {d \in present : /\ IsConstraintData(d)
                                /\ LooksAt(d, ArgT0)
                                /\ Violation(d) > args.tol}

Wit_C4 ==
    /\ op = "get_inconsistent_initial_conditions" /\ status = "ok"
    /\ args.t0 = NoT0 /\ args.tol = 1
    /\ nested
    /\ ~active[B3(1, 1, 1)]
    /\ B3Con(1, 1, 1, 1) \notin ret_inconsistent
    /\ B3Con(1, NX, 1, 1) \in present
    /\ Con1(1) \in ret_inconsistent
    /\ B1Con(1, 1) \in ret_inconsistent
    /\ Con2(1) \notin ret_inconsistent
    /\ \E u \in time : NbCon(1, u) \in ret_inconsistent

\* C5: on a model where a block indexed by time owns a block indexed by
\* time, get_inconsistent_initial_conditions raises ValueError
Cex_C5 ==
    (op = "get_inconsistent_initial_conditions" /\ nested)
        => status = "ValueError"

\* the (component, complement index, point) combinations deactivate_model_at
\* goes through on the flags act, in order, as the data they name
CombosInOrder(act, pts) ==
    LET comps == SelectSeq(component_objects(act, <<"Block", "Constraint">>),
                           LAMBDA c : ExplicitOnly(Data(c, <<>>)))
        Of(c) == [k \in 1..(Len(set_except(c)) * Len(pts)) |->
                     Data(c, index_getter(c, set_except(c)[((k - 1) \div Len(pts)) + 1],
                                          pts[((k - 1) % Len(pts)) + 1]))]
    IN  Flatten([k \in 1..Len(comps) |-> Of(comps[k])])

\* C6: without allow_skip, deactivate_model_at raises KeyError at the first
\* combination that has no data; the data of the combinations before it are
\* inactive, and no other flag has changed
Thm_C6 ==
    (op = "deactivate_model_at" /\ ~args.allow_skip /\ ValidPoints(args.pts))
        => LET combos == CombosInOrder(pre, args.pts)
               missing == {k \in 1..Len(combos) : combos[k] \notin present}
               stop == IF missing = {} THEN Len(combos) + 1
                       ELSE CHOOSE k \in missing : \A j \in missing : k <= j
               done == {combos[k] : k \in 1..(stop - 1)}
           IN  /\ status = (IF missing = {} THEN "ok" ELSE "KeyError")
               /\ active = [d \in present |-> pre[d] /\ d \notin done]

Wit_C6 ==
    /\ op = "deactivate_model_at" /\ ~args.allow_skip /\ status = "KeyError"
    /\ \E d \in present : pre[d] /\ ~active[d]
    /\ \E d \in present : /\ ExplicitOnly(d) /\ TimeOf(d) \in Range(args.pts)
                          /\ OwnersActive(pre, d) /\ active[d]

\* C7: solve_consistent_initial_conditions on a set whose scheme is neither
\* LAGRANGE-RADAU nor BACKWARD Difference raises NotImplementedError, changes
\* no active flag and never calls the solver
Thm_C7 ==
    (op = "solve_consistent_initial_conditions"
         /\ args.scheme \notin {"LAGRANGE-RADAU", "BACKWARD Difference"})
        => /\ status = "NotImplementedError"
           /\ pc = "done"
           /\ active = pre
           /\ solves = 0

Wit_C7 ==
    /\ op = "solve_consistent_initial_conditions"
    /\ args.scheme = "FORWARD Difference"
    /\ status = "NotImplementedError"
    /\ active[Con1(NT)] /\ active[B2(2, 1)]

\* the flags as they must stand while the solver runs: the data at the points
\* after the first, of the eligible components the walk reaches, are
\* inactive, and every other flag is what it was before the call
FlagsForSolve ==
    \A d \in present :
        IF ExplicitOnly(d) /\ OwnersActive(pre, d) /\ TimeOf(d) # TimeFirst
        THEN ~active[d]
        ELSE active[d] = pre[d]

\* C8: with a supported scheme the solver is called once, after the
\* deactivation and before any reactivation: when it is called everything
\* eligible is inactive after the first point and the flags at the first
\* point are untouched
Thm_C8 ==
    /\ pc = "solving" => (solves = 0 /\ FlagsForSolve)
    /\ pc = "reactivate" => (solves = 1 /\ FlagsForSolve)
    /\ (op = "solve_consistent_initial_conditions" /\ pc = "done"
            /\ args.scheme \in {"LAGRANGE-RADAU", "BACKWARD Difference"})
         => solves = 1

Wit_C8 ==
    /\ pc = "solving" /\ solves = 0
    /\ args.scheme = "BACKWARD Difference"
    /\ ~active[Con1(2)] /\ ~active[Con1(NT)] /\ ~active[B2(NT, 1)]
    /\ ~active[B1Con(2, NX)]
    /\ active[Con1(1)] /\ active[B2(1, 1)] /\ active[B1Con(1, NX)]

\* C9: the same call of deactivate_model_at with allow_skip, made again after
\* it has returned, returns without raising and leaves every active flag as
\* the first call left it
Thm_C9 ==
    (op = "deactivate_model_at" /\ args.repeat /\ args.allow_skip)
        => (status = "ok" /\ active = pre)

Wit_C9 ==
    /\ op = "deactivate_model_at" /\ args.repeat /\ args.allow_skip
    /\ status = "ok"
    /\ args.pts = <<2, 3>>
    /\ ~pre[B2(2, 1)] /\ ~active[B2(2, 1)]
    /\ ~pre[Con1(3)] /\ ~active[Con1(3)]
    /\ Con1(3) \in Range(ret_deactivated[3])
    /\ active[Con1(1)]

\* C10: with allow_skip, deactivate_model_at and
\* get_inconsistent_initial_conditions return normally whatever index
\* combination of an eligible constraint or block has no data
Cex_C10 ==
    (op \in {"deactivate_model_at", "get_inconsistent_initial_conditions"}
         /\ args.allow_skip /\ ValidPoints(args.pts))
        => status = "ok"

====
